---- MODULE Spec2Model ----
(***************************************************************************)
(* A model of the yama signal watcher (src/yama.go): the background        *)
(* listener of NewWatcher, the public operations Wait and Close, notify    *)
(* and the fan-out / fan-in of notifyClosers with its timer.               *)
(*                                                                         *)
(* Calls are numbered in the order in which they are made; each is a Wait  *)
(* or a Close made by some thread, and calls run concurrently.  Every      *)
(* goroutine spawned by notifyClosers belongs to the call that spawned it  *)
(* and is named by that call and the key of its holder.                    *)
(*                                                                         *)
(* NewWatcher is modelled twice from the same operators: Init is the       *)
(* state it leaves for a list of options whose closers are all present,    *)
(* and NewSpec runs it option by option for every list of options, also    *)
(* with absent (nil) closers, next to the signals of the operating system  *)
(* and the listener.                                                        *)
(***************************************************************************)
EXTENDS Naturals, Sequences, FiniteSets

\* ------------------------------------------------------------------ bounds
MaxCalls == 2
NumClosers == 2
MaxOptions == 2

\* ------------------------------------------------------- program constants
\* make(chan os.Signal, 1)
SignalsCap == 1
\* make(chan struct{}, 1)
DoneCap == 1
\* const DefaultTimeout = 10 * time.Second, in seconds
DefaultTimeout == 10

Calls == 1..MaxCalls
CloserIds == 1..NumClosers
NoCall == 0

\* The results a closer's Close may return: nil or an error.
CloseResults == {"nil", "error"}

\* The closers given to WithClosers: closer 1 is one whose Close returns an
\* error (the tests' BadCloser), the Close of every other closer returns
\* nil (the tests' CloseMe); whether and when a Close returns is up to the
\* closer (the tests' neverClose).  NilCloser is the nil io.Closer.
NilCloser == 0
CloseResult(x) == IF x = 1 THEN "error" ELSE "nil"

\* The signals the operating system may deliver to the process.
OsSignals == {"SIGINT", "SIGTERM"}

\* ---------------------------------------------------------------- options
\* type Settings struct { Signals; TimeOut; Closers }, with the signals as
\* the set signal.Notify makes of them.
Settings(signals_, timeOut, closers_) ==
    [Signals |-> signals_, TimeOut |-> timeOut, Closers |-> closers_]

\* The options: WatchingSignals(signals...), WithTimeout(timeout) and
\* WithClosers(closers...), each holding its argument.
WatchingSignals(ss) == [kind |-> "watchingSignals", signals |-> ss]
WithTimeout(t) == [kind |-> "withTimeout", timeout |-> t]
WithClosers(cl) == [kind |-> "withClosers", closers |-> cl]

\* func (w watchingSignals) Apply(o *Settings) { o.Signals = w.signals }
ApplyWatchingSignals(o, st) == [st EXCEPT !.Signals = o.signals]

\* func (w withTimeout) Apply(o *Settings) { o.TimeOut = w.timeout }
ApplyWithTimeout(o, st) == [st EXCEPT !.TimeOut = o.timeout]

\* Mutant of ApplyWithClosers: the closers are added to those already set.
ApplyWithClosersAppends(o, st) == [st EXCEPT !.Closers = @ \o o.closers]

\* func (w withClosers) Apply(o *Settings) { o.Closers = w.closers }
ApplyWithClosers(o, st) == [st EXCEPT !.Closers = o.closers]

\* option.Apply(s), dispatched on the type of the option.
Apply(o, st) ==
    CASE o.kind = "watchingSignals" -> ApplyWatchingSignals(o, st)
      [] o.kind = "withTimeout" -> ApplyWithTimeout(o, st)
      [] o.kind = "withClosers" -> ApplyWithClosers(o, st)

\* s := &Settings{TimeOut: DefaultTimeout}
InitialSettings == Settings({}, DefaultTimeout, <<>>)

\* for _, option := range options { option.Apply(s) }
RECURSIVE ApplyAll(_, _)
ApplyAll(opts, st) ==
    IF opts = <<>> THEN st ELSE ApplyAll(Tail(opts), Apply(Head(opts), st))

\* The watcher NewWatcher makes of the settings: w.timeout = s.TimeOut;
\* w.closers = s.Closers; signal.Notify(w.signals, s.Signals...);
\* w.wg.Add(1); go func() {...}()
Armed(st) ==
    [timeout |-> st.TimeOut, closers |-> st.Closers, watched |-> st.Signals,
     wg |-> 1, listener |-> "select"]

\* NewWatcher(options...)
NewWatcher(opts) == Armed(ApplyAll(opts, InitialSettings))

\* The timeouts given to WithTimeout, in seconds.
Timeouts == {1, 30}

\* The closer lists given to WithClosers, with absent closers.
CloserLists == UNION {[1..n -> CloserIds \cup {NilCloser}] : n \in 0..NumClosers}

\* The options and the option lists given to NewWatcher.
Options ==
    {WatchingSignals(ss) : ss \in SUBSET OsSignals}
        \cup {WithTimeout(t) : t \in Timeouts}
        \cup {WithClosers(cl) : cl \in CloserLists}
OptionLists == UNION {[1..n -> Options] : n \in 0..MaxOptions}

\* The option lists of the watchers whose calls are modelled: SIGINT is
\* watched and the closers are n different closers, all present, for no
\* closer, one closer and NumClosers closers.  The
\* timer may expire at any moment of the select loop whatever the timeout
\* is, so the timeout is varied for the watchers without closers, where
\* no timer is expected at all.
WatcherOptions ==
    {<<WatchingSignals({"SIGINT"}), WithClosers([i \in 1..n |-> i])>> :
        n \in {0, 1, NumClosers}}
      \cup {<<WatchingSignals({"SIGINT"}), WithTimeout(t)>> : t \in Timeouts}

VARIABLES
    options,    \* the options given to NewWatcher
    k,          \* the number of options NewWatcher has applied
    s,          \* NewWatcher's local variable s, the settings
    timeout,    \* w.timeout
    watched,    \* the signals given to signal.Notify for w.signals
    registered, \* s.Closers: the closers the watcher was constructed with
    closers,    \* w.closers: the closers notify has not taken yet
    signals,    \* number of events buffered in w.signals
    done,       \* number of requests buffered in w.done
    wg,         \* the counter of w.wg
    listener,   \* the position of the listener goroutine
    mux,        \* the call holding w.mux, or NoCall
    signalled,  \* whether the environment has delivered a watched signal
    closeCalled, \* whether a thread has called Close
    pc,         \* the position of every call: a Wait starts at "wait", a
                \* Close at "close", both go on with notify at "lock";
                \* a call at "return" has unlocked with no closers and
                \* is at notify's `return nil`, at "done" it has
                \* returned to its caller
    before,     \* per call, the calls that had returned when it was made
    lc,         \* notify's local variable closers
    count,      \* notifyClosers' local variable count
    pending,    \* notifyClosers' map pending, as its set of keys
    completed,  \* notifyClosers' channel completed, as the keys of its holders
    timer,      \* notifyClosers' timer
    task,       \* the position of every goroutine spawned by notifyClosers
    ret,        \* the value every call returns, from its return statement on
    Closed      \* per closer, how many times its Close was invoked

\* The construction of the watcher and what it fixes for good.
cfg == <<options, k, s, timeout, watched>>

vars == <<options, k, s, timeout, watched, registered, closers, signals, done, wg, listener, mux, signalled,
          closeCalled, pc, before, lc, count, pending, completed, timer, task,
          ret, Closed>>

\* ---------------------------------------------------------- return values
NoRet == [kind |-> "none", Uncompleted |-> {}]
Nil == [kind |-> "nil", Uncompleted |-> {}]
TimedOut(uncompleted) == [kind |-> "TimedOut", Uncompleted |-> uncompleted]
IsTimedOut(r) == r.kind = "TimedOut"

\* The keys of the holders notifyClosers makes for a closer list.
Keys(cl) == 1..Len(cl)

\* ------------------------------------------------------------------- Init
\* The state NewWatcher leaves: the channels are empty, the wait group
\* counts the listener, the closers are those of the options; no call has
\* been made.
Init ==
    /\ options \in WatcherOptions
    /\ k = Len(options)
    /\ s = ApplyAll(options, InitialSettings)
    /\ timeout = NewWatcher(options).timeout
    /\ watched = NewWatcher(options).watched
    /\ registered = NewWatcher(options).closers
    /\ closers = NewWatcher(options).closers
    /\ signals = 0
    /\ done = 0
    /\ wg = NewWatcher(options).wg
    /\ listener = NewWatcher(options).listener
    /\ mux = NoCall
    /\ signalled = FALSE
    /\ closeCalled = FALSE
    /\ pc = [c \in Calls |-> "none"]
    /\ before = [c \in Calls |-> {}]
    /\ lc = [c \in Calls |-> <<>>]
    /\ count = [c \in Calls |-> 0]
    /\ pending = [c \in Calls |-> {}]
    /\ completed = [c \in Calls |-> <<>>]
    /\ timer = [c \in Calls |-> "off"]
    /\ task = [c \in Calls |-> [i \in CloserIds |-> "none"]]
    /\ ret = [c \in Calls |-> NoRet]
    /\ Closed = [x \in CloserIds |-> 0]

\* ------------------------------------------------------------ environment
\* signal.Notify(c, sig...): "if no signals are provided, all incoming
\* signals will be relayed to c. Otherwise, just the provided signals will."
Relayed(sig) == listener # "none" /\ (watched = {} \/ sig \in watched)

\* The operating system delivers a signal the watcher is notified of:
\* signal.Notify's send to w.signals does not block, the event is dropped
\* when the buffer is full.
SignalDelivered(sig) ==
    /\ Relayed(sig)
    /\ signalled' = TRUE
    /\ signals' = IF signals < SignalsCap THEN signals + 1 ELSE signals
    /\ UNCHANGED <<cfg, registered, closers, done, wg, listener, mux, closeCalled,
                   pc, before, lc, count, pending, completed, timer, task,
                   ret, Closed>>

\* The calls that have returned.
Returned == {d \in Calls : pc[d] = "done"}

\* A thread calls Wait or Close: the next call, made after the calls that
\* have returned and concurrently with the others.
Start(c, o) ==
    /\ listener # "none"
    /\ pc[c] = "none"
    /\ \A d \in Calls : d < c => pc[d] # "none"
    /\ pc' = [pc EXCEPT ![c] = IF o = "Wait" THEN "wait" ELSE "close"]
    /\ closeCalled' = (closeCalled \/ o = "Close")
    /\ before' = [before EXCEPT ![c] = Returned]
    /\ UNCHANGED <<cfg, registered, closers, signals, done, wg, listener, mux,
                   signalled, lc, count, pending, completed,
                   timer, task, ret, Closed>>

\* --------------------------------------------------------------- listener
\* Mutant of ListenerSignal: the case has no return, the loop goes on.
ListenerSignalStays ==
    /\ listener = "select"
    /\ signals > 0
    /\ signals' = signals - 1
    /\ UNCHANGED <<cfg, registered, closers, done, wg, listener, mux,
                   signalled, closeCalled, pc, before, lc, count, pending,
                   completed, timer, task, ret, Closed>>

\* case <-w.signals: return, with the deferred w.wg.Done()
ListenerSignal ==
    /\ listener = "select"
    /\ signals > 0
    /\ signals' = signals - 1
    /\ listener' = "exited"
    /\ wg' = wg - 1
    /\ UNCHANGED <<cfg, registered, closers, done, mux, signalled, closeCalled, pc,
                   before, lc, count, pending, completed, timer, task, ret,
                   Closed>>

\* Mutant of ListenerDone: the case has no return, the loop goes on.
ListenerDoneStays ==
    /\ listener = "select"
    /\ done > 0
    /\ done' = done - 1
    /\ UNCHANGED <<cfg, registered, closers, signals, wg, listener, mux,
                   signalled, closeCalled, pc, before, lc, count, pending,
                   completed, timer, task, ret, Closed>>

\* case <-w.done: return, with the deferred w.wg.Done()
ListenerDone ==
    /\ listener = "select"
    /\ done > 0
    /\ done' = done - 1
    /\ listener' = "exited"
    /\ wg' = wg - 1
    /\ UNCHANGED <<cfg, registered, closers, signals, mux, signalled, closeCalled,
                   pc, before, lc, count, pending, completed, timer, task,
                   ret, Closed>>

\* ----------------------------------------------------------- Wait / Close
\* Mutant of WgWait: Wait does not wait for the wait group.
WgWaitNoBlock(c) ==
    /\ pc[c] = "wait"
    /\ pc' = [pc EXCEPT ![c] = "lock"]
    /\ UNCHANGED <<cfg, registered, closers, signals, done, wg, listener, mux,
                   signalled, closeCalled, before, lc, count, pending,
                   completed, timer, task, ret, Closed>>

\* Wait: w.wg.Wait() returns once the counter is zero.
WgWait(c) ==
    /\ pc[c] = "wait"
    /\ wg = 0
    /\ pc' = [pc EXCEPT ![c] = "lock"]
    /\ UNCHANGED <<cfg, registered, closers, signals, done, wg, listener, mux,
                   signalled, closeCalled, before, lc, count, pending,
                   completed, timer, task, ret, Closed>>

\* Mutant of CloseSend: a blocking send, w.done <- struct{}{}.
CloseSendBlocking(c) ==
    /\ pc[c] = "close"
    /\ done < DoneCap
    /\ done' = done + 1
    /\ pc' = [pc EXCEPT ![c] = "lock"]
    /\ UNCHANGED <<cfg, registered, closers, signals, wg, listener, mux, signalled,
                   closeCalled, before, lc, count, pending, completed, timer,
                   task, ret, Closed>>

\* Close: select { case w.done <- struct{}{}: default: }
CloseSend(c) ==
    /\ pc[c] = "close"
    /\ done' = IF done < DoneCap THEN done + 1 ELSE done
    /\ pc' = [pc EXCEPT ![c] = "lock"]
    /\ UNCHANGED <<cfg, registered, closers, signals, wg, listener, mux, signalled,
                   closeCalled, before, lc, count, pending, completed, timer,
                   task, ret, Closed>>

\* ----------------------------------------------------------------- notify
\* Mutant of Lock: the closer list is read without holding the mutex.
LockNoMutex(c) ==
    /\ pc[c] = "lock"
    /\ mux' = c
    /\ lc' = [lc EXCEPT ![c] = closers]
    /\ pc' = [pc EXCEPT ![c] = "release"]
    /\ UNCHANGED <<cfg, registered, closers, signals, done, wg, listener,
                   signalled, closeCalled, before, count, pending, completed,
                   timer, task, ret, Closed>>

\* w.mux.Lock(); closers := w.closers
Lock(c) ==
    /\ pc[c] = "lock"
    /\ mux = NoCall
    /\ mux' = c
    /\ lc' = [lc EXCEPT ![c] = closers]
    /\ pc' = [pc EXCEPT ![c] = "release"]
    /\ UNCHANGED <<cfg, registered, closers, signals, done, wg, listener,
                   signalled, closeCalled, before, count, pending, completed,
                   timer, task, ret, Closed>>

\* Mutant of NotifiesClosers: notifyClosers is called for an empty list too.
NotifiesClosersAlways(n) == n >= 0

\* count := len(closers); if count > 0 { return w.notifyClosers(closers...) }
NotifiesClosers(n) == n > 0

\* Mutant of Release: w.closers is not cleared.
ReleaseKeepsClosers(c) ==
    /\ pc[c] = "release"
    /\ mux' = NoCall
    /\ IF NotifiesClosers(Len(lc[c]))
       THEN /\ count' = [count EXCEPT ![c] = Len(lc[c])]
            /\ pc' = [pc EXCEPT ![c] = "spawn"]
            /\ ret' = ret
       ELSE /\ pc' = [pc EXCEPT ![c] = "return"]
            /\ ret' = [ret EXCEPT ![c] = Nil]
            /\ count' = count
    /\ UNCHANGED <<cfg, registered, closers, signals, done, wg, listener,
                   signalled, closeCalled, before, lc, pending, completed,
                   timer, task, Closed>>

\* w.closers = nil; w.mux.Unlock(); count := len(closers).  With no closers
\* notify is at its `return nil`; otherwise it calls notifyClosers, whose
\* locals count, pending and completed are made: the call is at the head
\* of the loop over the closers.  Either way it no longer holds the mutex.
Release(c) ==
    /\ pc[c] = "release"
    /\ closers' = <<>>
    /\ mux' = NoCall
    /\ IF NotifiesClosers(Len(lc[c]))
       THEN /\ count' = [count EXCEPT ![c] = Len(lc[c])]
            /\ pc' = [pc EXCEPT ![c] = "spawn"]
            /\ ret' = ret
       ELSE /\ pc' = [pc EXCEPT ![c] = "return"]
            /\ ret' = [ret EXCEPT ![c] = Nil]
            /\ count' = count
    /\ UNCHANGED <<cfg, registered, signals, done, wg, listener, signalled,
                   closeCalled, before, lc, pending, completed, timer, task,
                   Closed>>

\* The key of the holder of the next turn of the loop: the loop has put
\* the holders of its earlier turns in pending.
NextKey(c) == Cardinality(pending[c]) + 1

\* Mutant of MoreClosers: the loop ends after its first turn.
MoreClosersFirstOnly(i, cl) == i <= Len(cl) /\ i = 1

\* for i, closer := range closers: there is a closer for another turn.
MoreClosers(i, cl) == i <= Len(cl)

\* One turn of the loop: holder := holder{key: i, closer: closer};
\* go func() {...}(); pending[i] = holder.  The goroutine runs from now on,
\* next to the rest of the loop; pending is read by this call alone, in
\* its select loop.
Spawn(c) ==
    /\ pc[c] = "spawn"
    /\ MoreClosers(NextKey(c), lc[c])
    /\ task' = [task EXCEPT ![c][NextKey(c)] = "spawned"]
    /\ pending' = [pending EXCEPT ![c] = @ \cup {NextKey(c)}]
    /\ UNCHANGED <<cfg, registered, closers, signals, done, wg, listener, mux,
                   signalled, closeCalled, pc, before, lc, count, completed,
                   timer, ret, Closed>>

\* After the loop: timer := time.NewTimer(w.timeout); the call enters its
\* select loop.
NewTimer(c) ==
    /\ pc[c] = "spawn"
    /\ ~MoreClosers(NextKey(c), lc[c])
    /\ timer' = [timer EXCEPT ![c] = "running"]
    /\ pc' = [pc EXCEPT ![c] = "select"]
    /\ UNCHANGED <<cfg, registered, closers, signals, done, wg, listener, mux,
                   signalled, closeCalled, before, lc, count, pending,
                   completed, task, ret, Closed>>

\* The goroutine of holder i calls holder.closer.Close().
TaskClose(c, i) ==
    /\ task[c][i] = "spawned"
    /\ task' = [task EXCEPT ![c][i] = "inClose"]
    /\ Closed' = [Closed EXCEPT ![lc[c][i]] = @ + 1]
    /\ UNCHANGED <<cfg, registered, closers, signals, done, wg, listener, mux,
                   signalled, closeCalled, pc, before, lc, count, pending,
                   completed, timer, ret>>

\* holder.closer.Close() returns r, the result of that closer, which `_ =`
\* discards.  Whether and when a closer returns is up to the closer.
TaskReturn(c, i, r) ==
    /\ task[c][i] = "inClose"
    /\ r \in CloseResults
    /\ r = CloseResult(lc[c][i])
    /\ task' = [task EXCEPT ![c][i] = "returned"]
    /\ UNCHANGED <<cfg, registered, closers, signals, done, wg, listener, mux,
                   signalled, closeCalled, pc, before, lc, count, pending,
                   completed, timer, ret, Closed>>

\* Mutant of TaskSend: completed is unbuffered, make(chan holder); the send
\* needs the select loop to receive.
TaskSendUnbuffered(c, i) ==
    /\ task[c][i] = "returned"
    /\ pc[c] = "select"
    /\ completed[c] = <<>>
    /\ completed' = [completed EXCEPT ![c] = Append(@, i)]
    /\ task' = [task EXCEPT ![c][i] = "sent"]
    /\ UNCHANGED <<cfg, registered, closers, signals, done, wg, listener, mux,
                   signalled, closeCalled, pc, before, lc, count, pending,
                   timer, ret, Closed>>

\* completed <- holder: the channel has room for len(closers) holders.
TaskSend(c, i) ==
    /\ task[c][i] = "returned"
    /\ Len(completed[c]) < Len(lc[c])
    /\ completed' = [completed EXCEPT ![c] = Append(@, i)]
    /\ task' = [task EXCEPT ![c][i] = "sent"]
    /\ UNCHANGED <<cfg, registered, closers, signals, done, wg, listener, mux,
                   signalled, closeCalled, pc, before, lc, count, pending,
                   timer, ret, Closed>>

\* The timer expires: the runtime puts the time on timer.C.  Only the
\* select loop reads timer.C, so the timer matters while the loop runs.
TimerFire(c) ==
    /\ pc[c] = "select"
    /\ timer[c] = "running"
    /\ timer' = [timer EXCEPT ![c] = "fired"]
    /\ UNCHANGED <<cfg, registered, closers, signals, done, wg, listener, mux,
                   signalled, closeCalled, pc, before, lc, count, pending,
                   completed, task, ret, Closed>>

\* Mutant of Uncompleted: every closer of the call, pending or not.
UncompletedAll(c) == {lc[c][i] : i \in Keys(lc[c])}

\* The closers of the holders left in pending.
Uncompleted(c) == {lc[c][i] : i \in pending[c]}

\* Mutant of RecvTimer: the loop goes on after the timer has expired.
RecvTimerGoesOn(c) ==
    /\ pc[c] = "select"
    /\ timer[c] = "fired"
    /\ timer' = [timer EXCEPT ![c] = "expired"]
    /\ UNCHANGED <<cfg, registered, closers, signals, done, wg, listener, mux,
                   signalled, closeCalled, pc, before, lc, count, pending,
                   completed, task, ret, Closed>>

\* case <-timer.C: return &TimedOut{Uncompleted: uncompleted}.  The timer
\* is a local of the call: the receive and the return are one step.
RecvTimer(c) ==
    /\ pc[c] = "select"
    /\ timer[c] = "fired"
    /\ timer' = [timer EXCEPT ![c] = "expired"]
    /\ ret' = [ret EXCEPT ![c] = TimedOut(Uncompleted(c))]
    /\ pc' = [pc EXCEPT ![c] = "done"]
    /\ UNCHANGED <<cfg, registered, closers, signals, done, wg, listener, mux,
                   signalled, closeCalled, before, lc, count, pending,
                   completed, task, Closed>>

\* Mutant of RecvCompleted: the error of a closer that failed is returned.
RecvCompletedSurfacesError(c) ==
    /\ pc[c] = "select"
    /\ completed[c] # <<>>
    /\ completed' = [completed EXCEPT ![c] = Tail(@)]
    /\ pending' = [pending EXCEPT ![c] = @ \ {Head(completed[c])}]
    /\ count' = [count EXCEPT ![c] = @ - 1]
    /\ IF CloseResult(lc[c][Head(completed[c])]) = "error"
       THEN /\ pc' = [pc EXCEPT ![c] = "done"]
            /\ ret' = [ret EXCEPT ![c] = [kind |-> "error", Uncompleted |-> {}]]
       ELSE IF count'[c] = 0 \/ pending'[c] = {}
            THEN /\ pc' = [pc EXCEPT ![c] = "done"]
                 /\ ret' = [ret EXCEPT ![c] = Nil]
            ELSE /\ pc' = pc
                 /\ ret' = ret
    /\ UNCHANGED <<cfg, registered, closers, signals, done, wg, listener, mux,
                   signalled, closeCalled, before, lc, timer, task, Closed>>

\* Mutant of LoopEnds: count is tested before its decrement, pending not
\* at all.
LoopEndsLate(n, p) == n + 1 = 0

\* if count == 0 || len(pending) == 0
LoopEnds(n, p) == n = 0 \/ p = {}

\* case closer := <-completed: delete(pending, closer.key); count--;
\* return nil when nothing is left.  The channel never fills and only the
\* call receives from it: the last receive and the return are one step.
RecvCompleted(c) ==
    /\ pc[c] = "select"
    /\ completed[c] # <<>>
    /\ completed' = [completed EXCEPT ![c] = Tail(@)]
    /\ pending' = [pending EXCEPT ![c] = @ \ {Head(completed[c])}]
    /\ count' = [count EXCEPT ![c] = @ - 1]
    /\ IF LoopEnds(count'[c], pending'[c])
       THEN /\ pc' = [pc EXCEPT ![c] = "done"]
            /\ ret' = [ret EXCEPT ![c] = Nil]
       ELSE /\ pc' = pc
            /\ ret' = ret
    /\ UNCHANGED <<cfg, registered, closers, signals, done, wg, listener, mux,
                   signalled, closeCalled, before, lc, timer, task, Closed>>

\* return nil: notify, which found no closers, returns nil and Wait or
\* Close hands it to the caller.  The mutex is free by then, so other
\* calls lock, return and are made before this one has returned.
Return(c) ==
    /\ pc[c] = "return"
    /\ pc' = [pc EXCEPT ![c] = "done"]
    /\ UNCHANGED <<cfg, registered, closers, signals, done, wg, listener, mux,
                   signalled, closeCalled, before, lc, count, pending,
                   completed, timer, task, ret, Closed>>

\* ------------------------------------------------------------------- Next
\* The steps the program takes by itself, whatever its callers and the
\* operating system do.
SysNext ==
    \/ ListenerSignal
    \/ ListenerDone
    \/ \E c \in Calls : WgWait(c)
    \/ \E c \in Calls : CloseSend(c)
    \/ \E c \in Calls : Lock(c)
    \/ \E c \in Calls : Release(c)
    \/ \E c \in Calls : Spawn(c)
    \/ \E c \in Calls : NewTimer(c)
    \/ \E c \in Calls, i \in CloserIds : TaskClose(c, i)
    \/ \E c \in Calls, i \in CloserIds : TaskSend(c, i)
    \/ \E c \in Calls : TimerFire(c)
    \/ \E c \in Calls : RecvTimer(c)
    \/ \E c \in Calls : RecvCompleted(c)
    \/ \E c \in Calls : Return(c)

\* A closer returns from its Close.
CloserNext ==
    \E c \in Calls, i \in CloserIds, r \in CloseResults : TaskReturn(c, i, r)

EnvNext ==
    \/ \E sig \in OsSignals : SignalDelivered(sig)
    \/ \E c \in Calls, o \in {"Wait", "Close"} : Start(c, o)

Next == SysNext \/ CloserNext \/ EnvNext

Spec == Init /\ [][Next]_vars

\* Every goroutine that can take a step eventually takes one, and a running
\* timer eventually expires; no thread has to call Wait or Close, no signal
\* has to be delivered and no closer has to return.
FairSpec == Spec /\ WF_vars(SysNext)

\* ------------------------------------------------------------- NewWatcher
\* NewWatcher is called with a list of options: w := &Watcher{...};
\* s := &Settings{TimeOut: DefaultTimeout}.  Nothing is subscribed and no
\* listener runs yet.
NewInit ==
    /\ options \in OptionLists
    /\ k = 0
    /\ s = InitialSettings
    /\ timeout = 0
    /\ watched = {}
    /\ registered = <<>>
    /\ closers = <<>>
    /\ signals = 0
    /\ done = 0
    /\ wg = 0
    /\ listener = "none"
    /\ mux = NoCall
    /\ signalled = FALSE
    /\ closeCalled = FALSE
    /\ pc = [c \in Calls |-> "none"]
    /\ before = [c \in Calls |-> {}]
    /\ lc = [c \in Calls |-> <<>>]
    /\ count = [c \in Calls |-> 0]
    /\ pending = [c \in Calls |-> {}]
    /\ completed = [c \in Calls |-> <<>>]
    /\ timer = [c \in Calls |-> "off"]
    /\ task = [c \in Calls |-> [i \in CloserIds |-> "none"]]
    /\ ret = [c \in Calls |-> NoRet]
    /\ Closed = [x \in CloserIds |-> 0]

\* The watcher-side variables NewWatcher's loop leaves alone.
watcher == <<timeout, watched, registered, closers, signals, done, wg,
             listener, mux, signalled, closeCalled, pc, before, lc, count,
             pending, completed, timer, task, ret, Closed>>

\* One turn of the loop: option.Apply(s) for the next option.
ApplyOption ==
    /\ listener = "none"
    /\ k < Len(options)
    /\ s' = Apply(options[k + 1], s)
    /\ k' = k + 1
    /\ UNCHANGED <<options, watcher>>

\* The rest of NewWatcher, after the loop: the watcher takes its timeout
\* and closers from the settings, subscribes to the signals and starts the
\* listener; it is returned whatever the closers are.
Arm ==
    /\ listener = "none"
    /\ k = Len(options)
    /\ timeout' = Armed(s).timeout
    /\ watched' = Armed(s).watched
    /\ registered' = Armed(s).closers
    /\ closers' = Armed(s).closers
    /\ wg' = Armed(s).wg
    /\ listener' = Armed(s).listener
    /\ UNCHANGED <<options, k, s, signals, done, mux, signalled, closeCalled,
                   pc, before, lc, count, pending, completed, timer, task,
                   ret, Closed>>

\* NewWatcher, the signals of the operating system and the listener, with
\* no call of Wait or Close.
NewNext ==
    \/ ApplyOption
    \/ Arm
    \/ \E sig \in OsSignals : SignalDelivered(sig)
    \/ ListenerSignal

NewSpec == NewInit /\ [][NewNext]_vars

\* ----------------------------------------------------------------- claims
\* The closers the watcher was constructed with.
Registered == {registered[i] : i \in 1..Len(registered)}

\* The call took a non-empty closer list: it runs notifyClosers.
Ran(c) == pc[c] \in {"spawn", "select", "return", "done"} /\ Len(lc[c]) > 0

\* A watched signal has been delivered or Close has been called.
Triggered == signalled \/ closeCalled

\* C1: whatever Wait calls, Close calls and signals there are, the Close of
\* a registered closer is invoked at most once.
C1_ClosedAtMostOnce == \A x \in CloserIds : Closed[x] <= 1

\* Two calls have returned, Close was called, a further signal was
\* delivered after the trigger and is still buffered, and a closer was
\* closed once.
C1_Witness ==
    /\ \E c, d \in Calls : c # d /\ pc[c] = "done" /\ pc[d] = "done"
    /\ closeCalled
    /\ listener = "exited" /\ signals = 1
    /\ \E x \in Registered : Closed[x] = 1

\* C2: once a call has returned TimedOut, every call made afterwards
\* returns the very same TimedOut outcome.
C2_StableOutcome ==
    \A c \in Calls : \A r \in before[c] :
        (IsTimedOut(ret[r]) /\ pc[c] = "done") => ret[c] = ret[r]

\* C3: while a call runs the notification no other call has returned, and
\* the calls that ran concurrently with it return what it returns.
C3_OthersWaitForRunner ==
    \A r \in Calls : \A c \in Calls \ {r} :
        /\ (Ran(r) /\ pc[r] \in {"spawn", "select"}) => pc[c] # "done"
        /\ (Ran(r) /\ pc[r] = "done" /\ pc[c] = "done"
              /\ r \notin before[c] /\ c \notin before[r]) => ret[c] = ret[r]

\* C4: Wait is passive.  A Wait call gets past w.wg.Wait() only when a
\* watched signal has been delivered or Close has been called, and no step
\* of a Wait call changes the wait group, the listener or the two channels.
C4_WaitPassive ==
    [][\A c \in Calls :
         /\ (pc[c] = "none" /\ pc'[c] = "wait") =>
               UNCHANGED <<wg, listener, signals, done, signalled, closeCalled>>
         /\ (pc[c] = "wait" /\ pc'[c] # "wait") =>
               /\ Triggered
               /\ UNCHANGED <<wg, listener, signals, done, signalled, closeCalled>>]_vars

\* A call has returned after a signal and Close was never called: the call
\* is a Wait.
C4_Witness ==
    /\ \E c \in Calls : pc[c] = "done"
    /\ ~closeCalled
    /\ signalled

\* Every registered closer's Close has been invoked.
AllInvoked == \A x \in Registered : Closed[x] >= 1

\* Some thread has called Wait or Close.
SomeCall == \E c \in Calls : pc[c] # "none"

\* C5: after a signal is delivered every registered closer is eventually
\* invoked, whether or not a thread calls Wait or Close.  The listener
\* only marks the wait group done and exits, so with no call made no
\* closer is ever invoked.
C5_ListenerNotifies == signalled ~> AllInvoked

\* C6: once the watcher is triggered and a Wait or Close call is made, the
\* notification body runs exactly once: one call runs it and the Close of
\* every registered closer is eventually started, exactly once, also next
\* to a closer that never returns.  The trigger and the call made stay
\* for good, hence "eventually" is "again and again not yet or started".
C6_BodyRunsOnce ==
    /\ [](Cardinality({c \in Calls : Ran(c)}) <= 1)
    /\ [](\A x \in CloserIds : Closed[x] <= 1)
    /\ [][(Triggered /\ SomeCall) => (Triggered' /\ SomeCall')]_vars
    /\ []<>((Triggered /\ SomeCall) => \A x \in Registered : Closed[x] = 1)

\* Two closers: the first has not returned from its Close when the call
\* gives up, the second has been started as well.
C6_Witness ==
    /\ Len(registered) = 2
    /\ \E c \in Calls :
          /\ pc[c] = "done" /\ IsTimedOut(ret[c])
          /\ task[c][1] = "inClose" /\ task[c][2] # "spawned"
    /\ \A x \in Registered : Closed[x] = 1

\* The watcher is settled: the call that ran the notification has returned.
Settled == \E r \in Calls : Ran(r) /\ pc[r] = "done"

\* C7: every Close call returns: again and again no call is left between
\* its first step and its return (a call stays only before it is made, in
\* wg.Wait, or returned, and a Close is never in wg.Wait); its send on
\* w.done can always be taken; a Close made after the watcher is settled
\* spawns nothing, starts no timer and no call enters notifyClosers once
\* the watcher is settled.
C7_CloseTerminates ==
    /\ []<>(\A c \in Calls : pc[c] \in {"none", "wait", "done"})
    /\ [](\A c \in Calls : pc[c] = "close" => ENABLED CloseSend(c))
    /\ [](\A c \in Calls :
            (\E r \in before[c] : Ran(r) /\ pc[c] # "wait") =>
               /\ pc[c] \notin {"spawn", "select"}
               /\ timer[c] = "off"
               /\ \A i \in CloserIds : task[c][i] = "none")
    /\ [][Settled => \A c \in Calls : pc'[c] = "spawn" => pc[c] = "spawn"]_vars

\* No signal was delivered, so the listener has taken the request of the
\* Close that ran the notification; a call made after that Close returned
\* has left a second request in w.done, so it is a Close too, and it has
\* returned nil.
C7_Witness ==
    \E c \in Calls :
        /\ pc[c] = "done" /\ ret[c] = Nil
        /\ \E r \in before[c] : Ran(r)
        /\ ~signalled /\ listener = "exited" /\ done = DoneCap

\* C8: a closer that never returns does not prevent settlement: no call
\* stays in notifyClosers, in its loop over the closers or in its select
\* loop (whose only way out is to return), although no closer has to
\* return, and when it returns while a
\* closer has not returned from its Close, it returns TimedOut, naming that
\* closer.
C8_SettlesAtTimeout ==
    /\ []<>(\A c \in Calls : pc[c] \notin {"spawn", "select", "return"})
    /\ [](\A c \in Calls : \A i \in Keys(lc[c]) :
            (Ran(c) /\ pc[c] = "done" /\ task[c][i] \in {"spawned", "inClose"}) =>
               /\ IsTimedOut(ret[c])
               /\ lc[c][i] \in ret[c].Uncompleted)

\* The runner has returned TimedOut while the closer is inside its Close.
C8_Witness ==
    \E c \in Calls : \E i \in Keys(lc[c]) :
        /\ pc[c] = "done" /\ IsTimedOut(ret[c])
        /\ task[c][i] = "inClose"
        /\ lc[c][i] \in ret[c].Uncompleted

\* Every closer's Close of the call has returned.
AllReturned(c) ==
    /\ Len(lc[c]) > 0
    /\ \A i \in Keys(lc[c]) : task[c][i] \in {"returned", "sent"}

\* The keys whose completion notifyClosers has received from the channel.
Received(c) ==
    {i \in Keys(lc[c]) :
        /\ task[c][i] = "sent"
        /\ \A j \in 1..Len(completed[c]) : completed[c][j] # i}

\* C9 as claimed: if every closer's Close has returned while the timer has
\* not fired yet, the outcome is never TimedOut.
C9_NilWhenAllReturned ==
    \A c \in Calls :
        []((timer[c] = "running" /\ AllReturned(c)) => [](~IsTimedOut(ret[c])))

\* C9 as amended: the loop ends with nil as soon as it has received the
\* completion of every closer, and a notification that has received them
\* all never ends TimedOut, whether or not the timer has fired meanwhile.
C9_NilWhenAllReceived ==
    \A c \in Calls :
        /\ (pc[c] = "select") => Received(c) # Keys(lc[c])
        /\ (Ran(c) /\ pc[c] = "done" /\ Received(c) = Keys(lc[c])) => ret[c] = Nil
        /\ (Ran(c) /\ ret[c] = Nil) => Received(c) = Keys(lc[c])

\* Both closers finished and both completions were received: the call
\* returned nil although the timer had fired before it returned.
C9_Witness ==
    \E c \in Calls :
        /\ Len(lc[c]) = 2 /\ pc[c] = "done" /\ ret[c] = Nil
        /\ Received(c) = {1, 2}
        /\ timer[c] = "fired"

\* C10: TimedOut is returned only on the timer, with a closer pending; its
\* Uncompleted set is not empty, holds registered closers only, and is
\* exactly the closers whose completion had not been received.
C10_UncompletedIsPending ==
    \A c \in Calls :
        IsTimedOut(ret[c]) =>
           /\ timer[c] = "expired"
           /\ ret[c].Uncompleted # {}
           /\ ret[c].Uncompleted \subseteq Registered
           /\ ret[c].Uncompleted = {lc[c][i] : i \in Keys(lc[c]) \ Received(c)}

\* A slow and a fast closer: the fast one's completion was received, the
\* outcome names exactly the slow one.
C10_Witness ==
    \E c \in Calls :
        /\ Len(lc[c]) = 2 /\ task[c][1] = "inClose"
        /\ Received(c) = {2}
        /\ ret[c] = TimedOut({lc[c][1]})

\* The closers of the call whose Close returns an error.
Failing(c) == {i \in Keys(lc[c]) : CloseResult(lc[c][i]) = "error"}

\* C11: a closer whose Close returns an error is treated like one that
\* returns nil: once its completion is received it is not pending and is
\* in no Uncompleted list, no call returns anything but nil or TimedOut,
\* and the call returns nil when the completions of all its closers were
\* received, failed or not.
C11_ErrorLikeNil ==
    /\ \A c \in Calls : ret[c].kind \in {"none", "nil", "TimedOut"}
    /\ \A c \in Calls : \A i \in Failing(c) \cap Received(c) :
          /\ i \notin pending[c]
          /\ lc[c][i] \notin ret[c].Uncompleted
    /\ \A c \in Calls :
          (pc[c] = "done" /\ Ran(c) /\ Received(c) = Keys(lc[c])) =>
              ret[c] = Nil

\* A failing closer and one that returns nil: both completions were
\* received and the call has returned nil.
C11_Witness ==
    \E c \in Calls :
        /\ pc[c] = "done" /\ ret[c] = Nil
        /\ Failing(c) # {} /\ Failing(c) # Keys(lc[c])
        /\ Received(c) = Keys(lc[c])

\* Some closer supplied with WithClosers is nil.
HasNilCloser(opts) ==
    \E j \in 1..Len(opts) :
        /\ opts[j].kind = "withClosers"
        /\ \E i \in 1..Len(opts[j].closers) : opts[j].closers[i] = NilCloser

\* C12: for an option list with a nil closer NewWatcher makes no watcher:
\* no listener is started, the wait group counts nothing and no signal is
\* relayed to w.signals.
C12_NilCloserRejected ==
    HasNilCloser(options) =>
        /\ listener = "none"
        /\ wg = 0
        /\ \A sig \in OsSignals : ~Relayed(sig)

\* C13: a watcher without registered closers spawns no closer task and
\* starts no timer, no call on it enters notifyClosers,
\* and every call that returns returns nil, whatever the timeout is.
C13_NoClosersNilAtOnce ==
    registered = <<>> =>
        \A c \in Calls :
            /\ timer[c] = "off"
            /\ \A i \in CloserIds : task[c][i] = "none"
            /\ pc[c] \notin {"spawn", "select"}
            /\ pc[c] = "done" => ret[c] = Nil

\* A watcher without closers and with a timeout other than the default:
\* the listener has exited and a call has returned nil.
C13_Witness ==
    /\ registered = <<>>
    /\ timeout # DefaultTimeout
    /\ listener = "exited"
    /\ \E c \in Calls : pc[c] = "done" /\ ret[c] = Nil

\* Some option of the list is of the kind.
HasOption(opts, kind) == \E j \in 1..Len(opts) : opts[j].kind = kind

\* C14: a watcher made without WatchingSignals is triggered by no signal:
\* with no Close called its listener stays in its select; made without
\* WithTimeout its timeout is DefaultTimeout; made without WithClosers it
\* has no closers.
C14_Defaults ==
    listener # "none" =>
        /\ (~HasOption(options, "watchingSignals") /\ ~closeCalled) =>
              listener = "select" /\ wg = 1
        /\ ~HasOption(options, "withTimeout") => timeout = DefaultTimeout
        /\ ~HasOption(options, "withClosers") => registered = <<>>

\* C15: the listener leaves its select once, for good, by taking exactly
\* one event from w.signals or w.done and marking the wait group done;
\* nothing else takes an event, and a signal or close request that arrives
\* after that changes neither the listener, the wait group nor what has
\* been started of the closers.
C15_TriggersOnce ==
    /\ [](wg \in {0, 1} /\ (listener = "exited" <=> wg = 0))
    /\ [][(signals' < signals \/ done' < done \/ listener' # listener) =>
              /\ listener = "select" /\ listener' = "exited"
              /\ wg = 1 /\ wg' = 0
              /\ signals' + done' + 1 = signals + done]_vars
    /\ [][listener = "exited" =>
              /\ listener' = "exited" /\ wg' = 0
              /\ (signals' # signals \/ done' # done \/ signalled' # signalled) =>
                    UNCHANGED <<closers, task, timer, Closed>>]_vars

\* The listener has exited and a signal as well as a close request have
\* arrived since: both stay in their channels.
C15_Witness ==
    /\ listener = "exited" /\ wg = 0
    /\ signals = SignalsCap /\ done = DoneCap
    /\ \E x \in Registered : Closed[x] = 1

\* C16: once Close has been called, signal or no signal, the wait group
\* is eventually done and no call is left waiting or running: every Wait
\* blocked in wg.Wait or made later gets past it and returns.  Close
\* stays called for good, hence "eventually" is "again and again".
C16_CloseReleasesWaits ==
    /\ [][closeCalled => closeCalled']_vars
    /\ []<>(closeCalled =>
              (wg = 0 /\ \A c \in Calls : pc[c] \in {"none", "done"}))

\* Close was called and no signal was delivered: the wait group is done
\* while a Wait is still in wg.Wait, which it can now leave.
C16_Witness ==
    /\ closeCalled /\ ~signalled
    /\ wg = 0 /\ listener = "exited"
    /\ \E c \in Calls : pc[c] = "wait" /\ ENABLED WgWait(c)

\* The call has taken the closer list: it is past notify's unlock.
Taken(c) == pc[c] \in {"spawn", "select", "return", "done"}

\* C17: once a call has taken the closer list, w.closers is empty and stays
\* empty; a call that has read the list and not yet cleared it holds the
\* mutex, and at most one call ever gets a non-empty list.
C17_TakenListStaysEmpty ==
    /\ []((\E c \in Calls : Taken(c)) => closers = <<>>)
    /\ [][closers = <<>> => closers' = <<>>]_vars
    /\ [](\A c \in Calls : pc[c] = "release" => mux = c)
    /\ [](Cardinality({c \in Calls : Len(lc[c]) > 0}) <= 1)

\* The first call took the registered closers; a call made after it had
\* returned found the list empty.
C17_Witness ==
    /\ registered # <<>> /\ closers = <<>>
    /\ \E c \in Calls : \E r \in before[c] :
          /\ lc[r] = registered
          /\ Taken(c) /\ lc[c] = <<>>

\* Option j is the last of its kind among the first n options.
LastOfKind(j, n) ==
    \A i \in (j + 1)..n : options[i].kind # options[j].kind

\* C18: applying an option sets its own field of the settings to its
\* argument and leaves the other two fields alone; the options are applied
\* in argument order, so each field holds the argument of the last option
\* of its kind applied so far, whatever earlier options set.
C18_OptionFrames ==
    /\ [][k' # k =>
              /\ k' = k + 1
              /\ options[k'].kind = "watchingSignals" =>
                    /\ s'.Signals = options[k'].signals
                    /\ s'.TimeOut = s.TimeOut /\ s'.Closers = s.Closers
              /\ options[k'].kind = "withTimeout" =>
                    /\ s'.TimeOut = options[k'].timeout
                    /\ s'.Signals = s.Signals /\ s'.Closers = s.Closers
              /\ options[k'].kind = "withClosers" =>
                    /\ s'.Closers = options[k'].closers
                    /\ s'.Signals = s.Signals /\ s'.TimeOut = s.TimeOut]_vars
    /\ [](\A j \in 1..k : LastOfKind(j, k) =>
              /\ options[j].kind = "watchingSignals" => s.Signals = options[j].signals
              /\ options[j].kind = "withTimeout" => s.TimeOut = options[j].timeout
              /\ options[j].kind = "withClosers" => s.Closers = options[j].closers)

\* Two WithClosers options with different, non-empty closer lists have
\* been applied: the settings hold the closers of the second.
C18_Witness ==
    /\ k = 2
    /\ options[1].kind = "withClosers" /\ options[2].kind = "withClosers"
    /\ options[1].closers # <<>> /\ options[2].closers # <<>>
    /\ options[1].closers # options[2].closers
    /\ s.Closers = options[2].closers

\* C19: no closer is invoked while the watcher is armed: a goroutine of
\* notifyClosers exists, a timer runs or a closer's Close has been started
\* only if a watched signal was delivered or Close was called before.
C19_NoCloserWhileArmed ==
    (\/ \E x \in CloserIds : Closed[x] > 0
     \/ \E c \in Calls : timer[c] # "off"
     \/ \E c \in Calls, i \in CloserIds : task[c][i] # "none") => Triggered

\* A signal was delivered, Close was never called, and a Wait has started
\* the Close of a registered closer.
C19_Witness ==
    /\ signalled /\ ~closeCalled
    /\ \E x \in Registered : Closed[x] = 1
    /\ \E c \in Calls : \E i \in Keys(lc[c]) : task[c][i] = "inClose"

\* C20: a goroutine whose closer has returned can always send its holder:
\* completed never holds more than one holder per closer, every such
\* goroutine ends, and a send made after the call has returned changes
\* nothing but the channel and the goroutine.
C20_CompletionNeverBlocks ==
    /\ [](\A c \in Calls : \A i \in CloserIds :
            task[c][i] = "returned" => ENABLED TaskSend(c, i))
    /\ [](\A c \in Calls : Len(completed[c]) <= Len(lc[c]))
    /\ []<>(\A c \in Calls : \A i \in CloserIds : task[c][i] # "returned")
    /\ [][\A c \in Calls :
            (pc[c] = "done" /\ completed'[c] # completed[c]) =>
                UNCHANGED <<cfg, registered, closers, signals, done, wg,
                            listener, mux, signalled, closeCalled, pc, before,
                            lc, count, pending, timer, ret, Closed>>]_vars

\* The call has returned TimedOut for both closers and both goroutines
\* have sent their holders since or before: the channel is full and nobody
\* receives from it.
C20_Witness ==
    \E c \in Calls :
        /\ pc[c] = "done" /\ IsTimedOut(ret[c])
        /\ Len(lc[c]) = 2 /\ Len(completed[c]) = 2
        /\ \A i \in Keys(lc[c]) : task[c][i] = "sent" /\ lc[c][i] \in ret[c].Uncompleted

====
